---- MODULE Spec2Model ----
(***************************************************************************)
(* Meeting Summarizer: the request pipeline of app.py (process_meeting,    *)
(* cleanup_temp_files) and the collaborators it sequences: the speech      *)
(* transcriber and its lazily loaded model (utils/transcription.py), the   *)
(* text extractor (utils/text_extraction.py), the meeting analyzer         *)
(* (utils/llm_analysis.py), the report renderer (utils/pdf_generator.py)   *)
(* and the archive writer (utils/data_persistence.py).                     *)
(*                                                                         *)
(* Text is a sequence of code points, a file's content a sequence of       *)
(* bytes, a file name a sequence of one-character strings.  What the       *)
(* libraries and remote services answer is the environment's choice.       *)
(***************************************************************************)
EXTENDS Integers, Sequences, FiniteSets, TLC

VARIABLES
    _temp_files,    \* app.py: the tracked report paths
    fs,             \* the report files that exist in the temporary directory
    returned,       \* ghost: report paths handed back since the last cleanup
    requests,       \* ghost: the process_meeting calls made so far
    last,           \* ghost: what the last process_meeting / cleanup call did
    _model,         \* transcription.py: the cached speech model, or None
    _processor,     \* transcription.py: the cached processor, or None
    procFetches,    \* ghost: completed WhisperProcessor.from_pretrained calls
    modelFetches,   \* ghost: completed WhisperForConditionalGeneration.from_pretrained calls
    lastLoad,       \* ghost: what the last load / transcribe call did or returned
    installed,      \* the optional libraries whose import succeeded
    lastAnalyze,    \* ghost: what the last direct analyze_meeting call did
    lastExtract,    \* ghost: what the last direct extract_text call did
    remote,         \* the collection published on the Hub: its records, in order
    published,      \* ghost: the number of records published so far
    lastSave,       \* ghost: what the last direct save_meeting_to_dataset call did
    threads,        \* concurrent load_whisper_model calls: where each caller is
    heap,           \* the model objects the concurrent callers created, by id
    procs,          \* ghost: the load attempt that made each processor, by id
    loadAttempts    \* ghost: the load attempts started by concurrent callers

vars == <<_temp_files, fs, returned, requests, last, _model, _processor,
          procFetches, modelFetches, lastLoad, installed, lastAnalyze,
          lastExtract, remote, published, lastSave, threads, heap, procs,
          loadAttempts>>

pipelineVars == <<_temp_files, fs, returned, requests, last>>
archiveVars == <<remote, published>>
concVars == <<threads, heap, procs, loadAttempts>>
whisperVars == <<_model, _processor, procFetches, modelFetches>>

(***************************************************************************)
(* Bounds of the model.                                                    *)
(***************************************************************************)
MaxTextLen == 2     \* longest text, file content or raw transcription
MaxRequests == 2    \* most process_meeting calls of a run
MaxFetches == 2     \* most fetches of the pretrained processor
MaxPaths == 2       \* distinct report file names (seconds of the clock)
MaxPublished == 2   \* most records published by direct saves

(***************************************************************************)
(* Text.                                                                   *)
(***************************************************************************)
SPACE == 32
Bytes == {32, 233}

SeqsUpTo(S, n) == UNION {[1..k -> S] : k \in 0..n}

Texts == SeqsUpTo(Bytes, MaxTextLen)

\* str.strip(): leading and trailing whitespace removed
RECURSIVE LStrip(_)
LStrip(t) == IF t # <<>> /\ Head(t) = SPACE THEN LStrip(Tail(t)) ELSE t

RECURSIVE RStrip(_)
RStrip(t) ==
    IF t # <<>> /\ t[Len(t)] = SPACE THEN RStrip(SubSeq(t, 1, Len(t) - 1)) ELSE t

Strip(t) == RStrip(LStrip(t))

\* The failure signal (Python's None) where a text is expected: no text equals it
NoText == <<-1>>

\* Python truthiness of an Optional[str]: None and "" are both falsy
Falsy(t) == t = NoText \/ t = <<>>

(***************************************************************************)
(* The optional libraries: each module binds its imports to None when the  *)
(* import fails, once, at import time.                                     *)
(***************************************************************************)
Libs == {"whisper", "openai", "PyPDF2", "docx", "reportlab", "datasets"}

\* the installations modelled: every optional library, or none of them
LibConfigs == {Libs, {}}

(***************************************************************************)
(* utils/transcription.py                                                  *)
(***************************************************************************)
NoModel == [id |-> 0, eval |-> FALSE, placed |-> "none"]
NoProcessor == 0

\* where a load attempt raises: nowhere, in the processor fetch, in the model
\* fetch, or in the device placement
LoadFailures == {"nowhere", "processor", "model", "to"}

\* load_whisper_model on the cache (m, p), pf and mf fetches made so far
load_whisper_model(m, p, pf, mf, failAt, cuda) ==
    IF m = NoModel \/ p = NoProcessor
    THEN IF failAt = "processor"
         THEN [model |-> m, processor |-> p, pf |-> pf, mf |-> mf, raised |-> TRUE]
         ELSE IF failAt = "model"
         THEN [model |-> m, processor |-> pf + 1, pf |-> pf + 1, mf |-> mf,
               raised |-> TRUE]
         ELSE IF failAt = "to"
         THEN [model |-> [id |-> mf + 1, eval |-> TRUE, placed |-> "none"],
               processor |-> pf + 1, pf |-> pf + 1, mf |-> mf + 1, raised |-> TRUE]
         ELSE [model |-> [id |-> mf + 1, eval |-> TRUE,
                          placed |-> IF cuda THEN "cuda" ELSE "cpu"],
               processor |-> pf + 1, pf |-> pf + 1, mf |-> mf + 1, raised |-> FALSE]
    ELSE [model |-> m, processor |-> p, pf |-> pf, mf |-> mf, raised |-> FALSE]

\* the load attempts the environment can answer with: without the libraries the
\* first fetch raises, and a call on a loaded cache fetches nothing
LoadEnvs(m, p, libs) ==
    IF m # NoModel /\ p # NoProcessor THEN {[failAt |-> "nowhere", cuda |-> FALSE]}
    ELSE IF "whisper" \notin libs THEN {[failAt |-> "processor", cuda |-> FALSE]}
    ELSE [failAt : LoadFailures, cuda : BOOLEAN]

\* what the inference steps (librosa.load ... batch_decode) answer: an exception,
\* or the decoded text
InferRaises == <<-2>>
InferOutcomes == {InferRaises} \cup Texts

\* transcribe_audio: the text or the failure signal, and the cache it leaves
transcribe_audio(exists, libs, m, p, pf, mf, loadEnv, infer) ==
    IF ~exists \/ "whisper" \notin libs
    THEN [text |-> NoText, model |-> m, processor |-> p, pf |-> pf, mf |-> mf]
    ELSE LET ld == load_whisper_model(m, p, pf, mf, loadEnv.failAt, loadEnv.cuda)
             cache == [model |-> ld.model, processor |-> ld.processor,
                       pf |-> ld.pf, mf |-> ld.mf]
         IN  IF ld.raised \/ infer = InferRaises
             THEN [text |-> NoText] @@ cache
             ELSE [text |-> Strip(infer)] @@ cache

\* get_supported_audio_extensions
AudioExtensions ==
    {<<".", "m", "p", "3">>, <<".", "w", "a", "v">>, <<".", "m", "4", "a">>,
     <<".", "f", "l", "a", "c">>, <<".", "o", "g", "g">>}

\* str.lower() on the letters file names are written with
UpperLetters == <<"A", "C", "D", "F", "G", "L", "M", "O", "P", "T", "V", "W", "X">>
LowerLetters == <<"a", "c", "d", "f", "g", "l", "m", "o", "p", "t", "v", "w", "x">>

LowerChar(c) ==
    IF \E i \in 1..Len(UpperLetters) : UpperLetters[i] = c
    THEN LowerLetters[CHOOSE i \in 1..Len(UpperLetters) : UpperLetters[i] = c]
    ELSE c

Lower(name) == [i \in 1..Len(name) |-> LowerChar(name[i])]

\* os.path.splitext(name)[1] of a base name: from the last dot on, unless only
\* dots come before it
SplitExt(name) ==
    LET dots == {i \in 1..Len(name) : name[i] = "."}
    IN  IF dots = {} THEN <<>>
        ELSE LET d == CHOOSE i \in dots : \A j \in dots : j <= i
             IN  IF \E j \in 1..(d - 1) : name[j] # "."
                 THEN SubSeq(name, d, Len(name))
                 ELSE <<>>

\* is_audio_file comparing the extension as it is written
is_audio_file_CaseSensitive(name) ==
    IF name = <<>> THEN FALSE ELSE SplitExt(name) \in AudioExtensions

\* is_audio_file
is_audio_file(name) ==
    IF name = <<>> THEN FALSE ELSE Lower(SplitExt(name)) \in AudioExtensions

(***************************************************************************)
(* utils/text_extraction.py                                                *)
(***************************************************************************)
DecodeError == <<-3>>

\* bytes.decode('utf-8'): of the bytes modelled, 0xE9 opens a sequence that none
\* of them continues
Utf8Decode(content) ==
    IF \E i \in 1..Len(content) : content[i] >= 128 THEN DecodeError ELSE content

\* bytes.decode('latin-1'): every byte is the code point of the same number
Latin1Decode(content) == content

\* what a decoder does when it raises
ParserRaises == <<-2>>

\* a file that open() cannot read (an I/O error)
Unreadable == <<-4>>

\* _extract_from_txt: the first encoding of the list that decodes the file; an
\* error of open() other than UnicodeDecodeError is raised
extract_from_txt(content) ==
    IF content = Unreadable THEN ParserRaises
    ELSE IF Utf8Decode(content) # DecodeError THEN Utf8Decode(content)
    ELSE Latin1Decode(content)

\* what a PDF or DOCX parser answers: an exception, or the concatenated text of
\* the pages or paragraphs
ParserOutcomes == {ParserRaises} \cup Texts

\* _extract_from_pdf / _extract_from_docx: raise without the library or when the
\* parser raises; else the text, stripped
extract_from_parsed(lib, libs, parsed) ==
    IF lib \notin libs \/ parsed = ParserRaises THEN ParserRaises ELSE Strip(parsed)

\* extract_text without the handler of lines 52-54
extract_text_NoHandler(exists, name, content, libs, parsed) ==
    LET file_extension == Lower(SplitExt(name))
        decoder == IF ~exists THEN "none"
                   ELSE IF file_extension = <<".", "t", "x", "t">> THEN "txt"
                   ELSE IF file_extension = <<".", "p", "d", "f">> THEN "pdf"
                   ELSE IF file_extension = <<".", "d", "o", "c", "x">> THEN "docx"
                   ELSE "none"
        raw == CASE decoder = "txt" -> extract_from_txt(content)
                 [] decoder = "pdf" -> extract_from_parsed("PyPDF2", libs, parsed)
                 [] decoder = "docx" -> extract_from_parsed("docx", libs, parsed)
                 [] OTHER -> NoText
    IN  [text |-> IF raw = ParserRaises THEN NoText ELSE raw, decoder |-> decoder,
         decoderRaised |-> (raw = ParserRaises), raised |-> (raw = ParserRaises)]

\* extract_text: dispatch on the lower-cased extension; any exception becomes the
\* failure signal.  The text returned, the decoder called, whether it raised, and
\* whether the call raised
extract_text(exists, name, content, libs, parsed) ==
    LET file_extension == Lower(SplitExt(name))
        decoder == IF ~exists THEN "none"
                   ELSE IF file_extension = <<".", "t", "x", "t">> THEN "txt"
                   ELSE IF file_extension = <<".", "p", "d", "f">> THEN "pdf"
                   ELSE IF file_extension = <<".", "d", "o", "c", "x">> THEN "docx"
                   ELSE "none"
        raw == CASE decoder = "txt" -> extract_from_txt(content)
                 [] decoder = "pdf" -> extract_from_parsed("PyPDF2", libs, parsed)
                 [] decoder = "docx" -> extract_from_parsed("docx", libs, parsed)
                 [] OTHER -> NoText
    IN  [text |-> IF raw = ParserRaises THEN NoText ELSE raw, decoder |-> decoder,
         decoderRaised |-> (raw = ParserRaises), raised |-> FALSE]

\* the names extract_text is called with directly
ExtractNames ==
    {<<"m", ".", "t", "x", "t">>, <<"m", ".", "T", "X", "T">>,
     <<"m", ".", "p", "d", "f">>, <<"m", ".", "P", "D", "F">>,
     <<"m", ".", "d", "o", "c", "x">>, <<"m", ".", "D", "o", "c", "x">>,
     <<"m", ".", "M", "p", "3">>, <<"m", ".", "d", "o", "c">>,
     <<"n", "o", "t", "e", "s">>, <<".", "t", "x", "t">>}

NoExtract ==
    [called |-> FALSE, exists |-> FALSE, name |-> <<>>, input |-> <<>>,
     text |-> NoText, decoder |-> "none", decoderRaised |-> FALSE, raised |-> FALSE]

\* a caller invokes extract_text(file_path)
ExtractCall ==
    /\ \E exists \in BOOLEAN, name \in ExtractNames,
          content \in Texts \cup {Unreadable}, parsed \in ParserOutcomes :
          LET e == extract_text(exists, name, content, installed, parsed)
          IN  lastExtract' =
                  [called |-> TRUE, exists |-> exists, name |-> name,
                   input |-> CASE e.decoder = "txt" -> content
                               [] e.decoder \in {"pdf", "docx"} -> parsed
                               [] OTHER -> <<>>,
                   text |-> e.text, decoder |-> e.decoder,
                   decoderRaised |-> e.decoderRaised, raised |-> e.raised]
    /\ UNCHANGED <<pipelineVars, whisperVars, lastLoad, installed, concVars, lastAnalyze,
                   archiveVars, lastSave>>

(***************************************************************************)
(* utils/llm_analysis.py                                                   *)
(*                                                                         *)
(* The content of a response is a sequence of tokens: the fence markers,   *)
(* line breaks, and JSON documents, each named by a token.                 *)
(***************************************************************************)
\* the three-backtick marker, with and without the json tag
FenceJson == "FENCEjson"
Fence == "FENCE"
NL == "\n"

Absent == [present |-> FALSE, type |-> "none"]
Has(t) == [present |-> TRUE, type |-> t]

\* json.loads of a document token: the kind of value, and for an object its three
\* fields of interest
JsonValue(doc) ==
    CASE doc = "J1" ->
           [kind |-> "object", f |-> [summary |-> Has("str"), topics |-> Has("list"),
                                      keywords |-> Has("list")],
            summary |-> "s1", topics |-> <<"A", "B">>, keywords |-> <<"x", "y", "z">>]
      [] doc = "Jmissing" ->
           [kind |-> "object", f |-> [summary |-> Has("str"), topics |-> Has("list"),
                                      keywords |-> Absent],
            summary |-> "s1", topics |-> <<"A">>, keywords |-> <<>>]
      [] doc = "Jtype" ->
           [kind |-> "object", f |-> [summary |-> Has("str"), topics |-> Has("str"),
                                      keywords |-> Has("list")],
            summary |-> "s1", topics |-> <<>>, keywords |-> <<"x">>]
      [] doc = "Jarray" ->
           [kind |-> "array", f |-> [summary |-> Has("str"), topics |-> Has("str"),
                                     keywords |-> Has("str")],
            summary |-> "", topics |-> <<>>, keywords |-> <<>>]
      [] OTHER ->
           [kind |-> "invalid", f |-> [summary |-> Absent, topics |-> Absent,
                                       keywords |-> Absent],
            summary |-> "", topics |-> <<>>, keywords |-> <<>>]

Docs == {"J1", "Jmissing", "Jtype", "Jarray", "garbage"}

\* the failure signal where an analysis is expected
NoAnalysis == [ok |-> FALSE, summary |-> "", topics |-> <<>>, keywords |-> <<>>]

\* str.strip() on tokens
RECURSIVE StripTokens(_)
StripTokens(c) ==
    IF c # <<>> /\ Head(c) = NL THEN StripTokens(Tail(c))
    ELSE IF c # <<>> /\ c[Len(c)] = NL THEN StripTokens(SubSeq(c, 1, Len(c) - 1))
    ELSE c

\* lines 78-81: the json-tagged marker is cut from the front, the plain marker
\* from the end
StripFences(content) ==
    LET c1 == IF content # <<>> /\ Head(content) = FenceJson THEN Tail(content)
              ELSE content
    IN  IF c1 # <<>> /\ c1[Len(c1)] = Fence THEN SubSeq(c1, 1, Len(c1) - 1) ELSE c1

\* json.loads: one document, white space around it allowed
JsonLoads(content) ==
    LET c == StripTokens(content)
    IN  IF Len(c) = 1 THEN JsonValue(c[1]) ELSE JsonValue("garbage")

\* lines 84-110 without the type checks of lines 94-102
ParseAnalysis_NoTypeCheck(content) ==
    LET result == JsonLoads(StripFences(StripTokens(content)))
    IN  IF result.kind = "invalid" THEN NoAnalysis
        ELSE IF \E k \in {"summary", "topics", "keywords"} : ~result.f[k].present
        THEN NoAnalysis
        ELSE IF result.kind # "object" THEN NoAnalysis
        ELSE [ok |-> TRUE, summary |-> result.summary, topics |-> result.topics,
              keywords |-> result.keywords]

\* lines 84-110 and the handler of line 112: the parsed value validated
ParseAnalysis(content) ==
    LET result == JsonLoads(StripFences(StripTokens(content)))
    IN  IF result.kind = "invalid" THEN NoAnalysis
        ELSE IF \E k \in {"summary", "topics", "keywords"} : ~result.f[k].present
        THEN NoAnalysis
        ELSE IF result.kind # "object" THEN NoAnalysis
        ELSE IF result.f.summary.type # "str" THEN NoAnalysis
        ELSE IF result.f.topics.type # "list" THEN NoAnalysis
        ELSE IF result.f.keywords.type # "list" THEN NoAnalysis
        ELSE [ok |-> TRUE, summary |-> result.summary, topics |-> result.topics,
              keywords |-> result.keywords]

\* what the service call answers: an exception, or a content: a document alone,
\* in a json-tagged fence, or in a plain fence
RespRaises == <<"raise">>
Bare(d) == <<d>>
TaggedFenced(d) == <<FenceJson, NL, d, NL, Fence>>
PlainFenced(d) == <<Fence, NL, d, NL, Fence>>
Contents == UNION {{Bare(d), TaggedFenced(d), PlainFenced(d)} : d \in Docs}
Responses == {RespRaises} \cup Contents

\* analyze_meeting without the check of line 35
analyze_meeting_NoKeyCheck(text, api_key, libs, resp) ==
    IF Falsy(text) \/ Strip(text) = <<>>
    THEN [result |-> NoAnalysis, client |-> FALSE, requests |-> 0]
    ELSE IF "openai" \notin libs
    THEN [result |-> NoAnalysis, client |-> FALSE, requests |-> 0]
    ELSE [result |-> IF resp = RespRaises \/ api_key = "" THEN NoAnalysis
                     ELSE ParseAnalysis(resp),
          client |-> TRUE, requests |-> 1]

\* analyze_meeting: the result, whether the client was constructed, and the
\* number of requests sent
analyze_meeting(text, api_key, libs, resp) ==
    IF Falsy(text) \/ Strip(text) = <<>>
    THEN [result |-> NoAnalysis, client |-> FALSE, requests |-> 0]
    ELSE IF api_key = ""
    THEN [result |-> NoAnalysis, client |-> FALSE, requests |-> 0]
    ELSE IF "openai" \notin libs
    THEN [result |-> NoAnalysis, client |-> FALSE, requests |-> 0]
    ELSE [result |-> IF resp = RespRaises THEN NoAnalysis ELSE ParseAnalysis(resp),
          client |-> TRUE, requests |-> 1]

\* format_analysis_for_display: one dash-prefixed line per item
format_analysis_for_display(analysis) ==
    IF ~analysis.ok
    THEN [summary |-> "Error in analysis", topics |-> <<"Error in analysis">>,
          keywords |-> <<"Error in analysis">>]
    ELSE [summary |-> analysis.summary,
          topics |-> [i \in 1..Len(analysis.topics) |-> "- " \o analysis.topics[i]],
          keywords |-> [i \in 1..Len(analysis.keywords) |->
                           "- " \o analysis.keywords[i]]]

(***************************************************************************)
(* utils/pdf_generator.py                                                  *)
(***************************************************************************)
NoPath == 0
PdfPaths == 1..MaxPaths

\* what building the document answers: an exception, or the file written under
\* the name the clock gives
BuildRaises == NoPath
BuildOutcomes == {BuildRaises} \cup PdfPaths

\* generate_pdf: the path returned, or the failure signal, and the files after it
generate_pdf(analysis, libs, files, build) ==
    IF ~analysis.ok THEN [path |-> NoPath, fs |-> files]
    ELSE IF "reportlab" \notin libs THEN [path |-> NoPath, fs |-> files]
    ELSE IF build = BuildRaises THEN [path |-> NoPath, fs |-> files]
    ELSE [path |-> build, fs |-> files \cup {build}]

(***************************************************************************)
(* utils/data_persistence.py                                               *)
(***************************************************************************)
\* which remote steps succeed: login, Dataset.from_hub, Dataset.from_dict,
\* Dataset.from_list, push_to_hub
SaveEnvs == [login : BOOLEAN, fetch : BOOLEAN, create : BOOLEAN, build : BOOLEAN,
             push : BOOLEAN]

\* the failure signal where a dataset is expected; a record is named by its id
NoDataset == <<-5>>

\* _get_or_create_dataset: the records of the published collection, an empty
\* dataset when the fetch raises, the failure signal when creating it raises too
get_or_create_dataset(rem, env) ==
    IF env.fetch THEN rem ELSE IF env.create THEN <<>> ELSE NoDataset

\* save_meeting_to_dataset with a failed publish failing the save
save_meeting_to_dataset_PushFatal(rem, id, hasData, hf_token, libs, env) ==
    LET unchanged == [ok |-> FALSE, attempted |-> FALSE, pushed |-> FALSE,
                      remote |-> rem, raised |-> FALSE]
        dataset == get_or_create_dataset(rem, env)
        records == Append(dataset, id)
    IN  IF ~hasData THEN unchanged
        ELSE IF "datasets" \notin libs THEN unchanged
        ELSE IF dataset = NoDataset THEN unchanged
        ELSE IF ~env.build THEN unchanged
        ELSE IF hf_token = "" THEN [unchanged EXCEPT !.ok = TRUE]
        ELSE IF env.push
        THEN [ok |-> TRUE, attempted |-> TRUE, pushed |-> TRUE, remote |-> records,
              raised |-> FALSE]
        ELSE [unchanged EXCEPT !.attempted = TRUE]

\* save_meeting_to_dataset on the published collection rem, the new record
\* getting the id given: the boolean returned, whether a publish was attempted,
\* whether it succeeded, the published collection after the call, and whether
\* the call raised
save_meeting_to_dataset(rem, id, hasData, hf_token, libs, env) ==
    LET unchanged == [ok |-> FALSE, attempted |-> FALSE, pushed |-> FALSE,
                      remote |-> rem, raised |-> FALSE]
        dataset == get_or_create_dataset(rem, env)
        records == Append(dataset, id)
    IN  IF ~hasData THEN unchanged
        ELSE IF "datasets" \notin libs THEN unchanged
        ELSE IF dataset = NoDataset THEN unchanged
        ELSE IF ~env.build THEN unchanged
        ELSE IF hf_token = "" THEN [unchanged EXCEPT !.ok = TRUE]
        ELSE IF env.push
        THEN [ok |-> TRUE, attempted |-> TRUE, pushed |-> TRUE, remote |-> records,
              raised |-> FALSE]
        ELSE [unchanged EXCEPT !.ok = TRUE, !.attempted = TRUE]

HfTokens == {"", "hf"}

NoSave ==
    [called |-> FALSE, hasData |-> FALSE, hf_token |-> "",
     env |-> [login |-> FALSE, fetch |-> FALSE, create |-> FALSE, build |-> FALSE,
              push |-> FALSE],
     ok |-> FALSE, attempted |-> FALSE, pushed |-> FALSE, raised |-> FALSE,
     remoteBefore |-> <<>>]

\* a caller invokes save_meeting_to_dataset(meeting_data, hf_token)
SaveCall ==
    /\ published < MaxPublished
    /\ \E hasData \in BOOLEAN, hf_token \in HfTokens, env \in SaveEnvs :
          LET sv == save_meeting_to_dataset(remote, published + 1, hasData, hf_token,
                                            installed, env)
          IN  /\ remote' = sv.remote
              /\ published' = IF sv.pushed THEN published + 1 ELSE published
              /\ lastSave' = [called |-> TRUE, hasData |-> hasData,
                              hf_token |-> hf_token, env |-> env, ok |-> sv.ok,
                              attempted |-> sv.attempted, pushed |-> sv.pushed,
                              raised |-> sv.raised, remoteBefore |-> remote]
    /\ UNCHANGED <<pipelineVars, whisperVars, lastLoad, installed, concVars, lastAnalyze,
                   lastExtract>>

(***************************************************************************)
(* Direct calls of the analyzer.                                           *)
(***************************************************************************)
ApiKeys == {"", "sk"}

\* no request was sent, so there is no response
NoResponse == <<"none">>

NoAnalyze ==
    [called |-> FALSE, text |-> NoText, api_key |-> "", result |-> NoAnalysis,
     client |-> FALSE, requests |-> 0, resp |-> NoResponse]

\* a call of analyze_meeting(text, api_key) answered with resp, as recorded
AnalyzeRecord(text, api_key, resp) ==
    LET a == analyze_meeting(text, api_key, installed, resp)
    IN  [called |-> TRUE, text |-> text, api_key |-> api_key, result |-> a.result,
         client |-> a.client, requests |-> a.requests,
         resp |-> IF a.requests = 0 THEN NoResponse ELSE resp]

\* a caller invokes analyze_meeting(text, api_key)
AnalyzeCall ==
    /\ \E call \in {AnalyzeRecord(text, api_key, resp) :
                      text \in Texts \cup {NoText}, api_key \in ApiKeys,
                      resp \in Responses} :
          lastAnalyze' = call
    /\ UNCHANGED <<pipelineVars, whisperVars, lastLoad, installed, concVars, lastExtract,
                   archiveVars, lastSave>>

(***************************************************************************)
(* Direct calls of the loader and the transcriber, one after the other.    *)
(***************************************************************************)
NoLoad ==
    [op |-> "none", raised |-> FALSE, model |-> NoModel, processor |-> NoProcessor,
     cachedBefore |-> FALSE, text |-> NoText]

\* the bound on fetches: a call that may fetch is made only below it
CanLoad == (_model # NoModel /\ _processor # NoProcessor) \/ procFetches < MaxFetches

\* a caller invokes load_whisper_model()
LoadCall ==
    /\ CanLoad
    /\ \E env \in LoadEnvs(_model, _processor, installed) :
          LET ld == load_whisper_model(_model, _processor, procFetches, modelFetches,
                                       env.failAt, env.cuda)
          IN  /\ _model' = ld.model
              /\ _processor' = ld.processor
              /\ procFetches' = ld.pf
              /\ modelFetches' = ld.mf
              /\ lastLoad' = [op |-> "load", raised |-> ld.raised,
                              model |-> IF ld.raised THEN NoModel ELSE ld.model,
                              processor |-> IF ld.raised THEN NoProcessor
                                            ELSE ld.processor,
                              cachedBefore |-> (_model # NoModel
                                                /\ _processor # NoProcessor),
                              text |-> NoText]
    /\ UNCHANGED <<pipelineVars, installed, concVars, lastAnalyze, lastExtract, archiveVars,
                   lastSave>>

\* a caller invokes transcribe_audio(path)
TranscribeCall ==
    /\ CanLoad
    /\ \E tr \in {transcribe_audio(exists, installed, _model, _processor,
                                     procFetches, modelFetches, env, infer) :
                    exists \in BOOLEAN, infer \in InferOutcomes,
                    env \in LoadEnvs(_model, _processor, installed)} :
              /\ _model' = tr.model
              /\ _processor' = tr.processor
              /\ procFetches' = tr.pf
              /\ modelFetches' = tr.mf
              /\ lastLoad' = [op |-> "transcribe", raised |-> FALSE,
                              model |-> NoModel, processor |-> NoProcessor,
                              cachedBefore |-> (_model # NoModel
                                                /\ _processor # NoProcessor),
                              text |-> tr.text]
    /\ UNCHANGED <<pipelineVars, installed, concVars, lastAnalyze, lastExtract, archiveVars,
                   lastSave>>

(***************************************************************************)
(* load_whisper_model called by concurrent requests.  A caller runs the     *)
(* function statement by statement; the statements of different callers     *)
(* interleave.  A model is an object: _model refers to it, eval() and to()  *)
(* change it in place, and the record in _model shows the object it refers  *)
(* to as it is.                                                             *)
(***************************************************************************)
Threads == {"a", "b"}

IdleThread == [pc |-> "idle", attempt |-> 0, obj |-> 0]

\* the object of id as _model shows it
View(id, h) ==
    IF id = 0 THEN NoModel
    ELSE [id |-> id, eval |-> h[id].eval, placed |-> h[id].placed]

\* the callers that are at the check of line 34
AtCheck == {t \in Threads : threads[t].pc = "check"}

\* the callers that are inside the block of lines 35-53
Loading ==
    {t \in Threads : threads[t].pc \in {"processor", "model", "eval", "to", "assign"}}

\* the bound on load attempts: a call that may start one is made only below it
CanCall ==
    \/ (_model # NoModel /\ _processor # NoProcessor)
    \/ loadAttempts + Cardinality(AtCheck) < MaxFetches

Step(t, pc) == threads' = [threads EXCEPT ![t].pc = pc]

\* the handler of lines 51-53: the exception is logged and raised again
Raise(t) ==
    /\ threads' = [threads EXCEPT ![t] = IdleThread]
    /\ lastLoad' = [NoLoad EXCEPT !.op = "load", !.raised = TRUE]

\* a request calls load_whisper_model()
ThreadCall(t) ==
    /\ threads[t].pc = "idle"
    /\ CanCall
    /\ threads' = [threads EXCEPT ![t] = [IdleThread EXCEPT !.pc = "check"]]
    /\ UNCHANGED <<pipelineVars, whisperVars, lastLoad, installed, lastAnalyze,
                   lastExtract, archiveVars, lastSave, heap, procs, loadAttempts>>

\* line 34 with a guard: a caller that finds another one loading does not load
ThreadCheck_SkipWhenLoading(t) ==
    /\ threads[t].pc = "check"
    /\ IF (_model = NoModel \/ _processor = NoProcessor) /\ Loading \ {t} = {}
       THEN /\ threads' = [threads EXCEPT ![t].pc = "processor",
                                          ![t].attempt = loadAttempts + 1]
            /\ loadAttempts' = loadAttempts + 1
       ELSE /\ Step(t, "return")
            /\ UNCHANGED loadAttempts
    /\ UNCHANGED <<pipelineVars, whisperVars, lastLoad, installed, lastAnalyze,
                   lastExtract, archiveVars, lastSave, heap, procs>>

\* line 34: the emptiness check
ThreadCheck(t) ==
    /\ threads[t].pc = "check"
    /\ IF _model = NoModel \/ _processor = NoProcessor
       THEN /\ threads' = [threads EXCEPT ![t].pc = "processor",
                                          ![t].attempt = loadAttempts + 1]
            /\ loadAttempts' = loadAttempts + 1
       ELSE /\ Step(t, "return")
            /\ UNCHANGED loadAttempts
    /\ UNCHANGED <<pipelineVars, whisperVars, lastLoad, installed, lastAnalyze,
                   lastExtract, archiveVars, lastSave, heap, procs>>

\* line 39: the processor is fetched and assigned, or the fetch raises
ThreadFetchProcessor(t) ==
    /\ threads[t].pc = "processor"
    /\ \E ok \in {b \in BOOLEAN : b => "whisper" \in installed} :
          IF ok
          THEN /\ procs' = Append(procs, threads[t].attempt)
               /\ _processor' = Len(procs) + 1
               /\ procFetches' = procFetches + 1
               /\ Step(t, "model")
               /\ UNCHANGED lastLoad
          ELSE /\ Raise(t)
               /\ UNCHANGED <<_processor, procFetches, procs>>
    /\ UNCHANGED <<pipelineVars, _model, modelFetches, installed,
                   lastAnalyze, lastExtract, archiveVars, lastSave, heap, loadAttempts>>

\* line 40: the model is fetched and assigned, or the fetch raises
ThreadFetchModel(t) ==
    /\ threads[t].pc = "model"
    /\ \E ok \in BOOLEAN :
          IF ok
          THEN /\ heap' = Append(heap, [eval |-> FALSE, placed |-> "none",
                                        by |-> threads[t].attempt])
               /\ _model' = View(Len(heap) + 1, heap')
               /\ modelFetches' = modelFetches + 1
               /\ Step(t, "eval")
               /\ UNCHANGED lastLoad
          ELSE /\ Raise(t)
               /\ UNCHANGED <<_model, modelFetches, heap>>
    /\ UNCHANGED <<pipelineVars, _processor, procFetches, installed,
                   lastAnalyze, lastExtract, archiveVars, lastSave, procs, loadAttempts>>

\* line 43: eval() on the object _model refers to now
ThreadEval(t) ==
    /\ threads[t].pc = "eval"
    /\ heap' = [heap EXCEPT ![_model.id].eval = TRUE]
    /\ _model' = View(_model.id, heap')
    /\ Step(t, "to")
    /\ UNCHANGED <<pipelineVars, _processor, procFetches, modelFetches, lastLoad,
                   installed, lastAnalyze, lastExtract, archiveVars, lastSave, procs,
                   loadAttempts>>

\* lines 44-47, the call: to() places the object _model refers to now, or raises
ThreadTo(t) ==
    /\ threads[t].pc = "to"
    /\ \E ok \in BOOLEAN, cuda \in BOOLEAN :
          IF ok
          THEN /\ heap' = [heap EXCEPT ![_model.id].placed =
                                           IF cuda THEN "cuda" ELSE "cpu"]
               /\ _model' = View(_model.id, heap')
               /\ threads' = [threads EXCEPT ![t].pc = "assign",
                                             ![t].obj = _model.id]
               /\ UNCHANGED lastLoad
          ELSE /\ Raise(t)
               /\ UNCHANGED <<_model, heap>>
    /\ UNCHANGED <<pipelineVars, _processor, procFetches, modelFetches,
                   installed, lastAnalyze, lastExtract, archiveVars, lastSave, procs,
                   loadAttempts>>

\* lines 44-47, the assignment: _model refers to the object to() returned
ThreadAssign(t) ==
    /\ threads[t].pc = "assign"
    /\ _model' = View(threads[t].obj, heap)
    /\ Step(t, "return")
    /\ UNCHANGED <<pipelineVars, _processor, procFetches, modelFetches, lastLoad,
                   installed, lastAnalyze, lastExtract, archiveVars, lastSave, heap,
                   procs, loadAttempts>>

\* line 55: the caller gets what _model and _processor refer to now
ThreadReturn(t) ==
    /\ threads[t].pc = "return"
    /\ lastLoad' = [NoLoad EXCEPT !.op = "load", !.model = _model,
                                  !.processor = _processor,
                                  !.cachedBefore = (threads[t].attempt = 0)]
    /\ threads' = [threads EXCEPT ![t] = IdleThread]
    /\ UNCHANGED <<pipelineVars, whisperVars, installed, lastAnalyze, lastExtract,
                   archiveVars, lastSave, heap, procs, loadAttempts>>

(***************************************************************************)
(* app.py: process_meeting                                                 *)
(***************************************************************************)
\* the uploaded file: nothing, a path that does not exist, a directory, an
\* object whose name os.path.exists rejects (TypeError), or a regular file
NoFile == [kind |-> "none", name |-> <<>>, content |-> <<>>]
RegularFile(n, c) == [kind |-> "file", name |-> n, content |-> c]

TxtNames == {<<"m", ".", "t", "x", "t">>}
ParsedNames == {<<"m", ".", "P", "D", "F">>, <<"m", ".", "d", "o", "c", "x">>}
AudioNames ==
    {<<"m", ".", "M", "p", "3">>, <<"m", ".", "w", "a", "v">>,
     <<"m", ".", "M", "4", "A">>, <<"m", ".", "f", "l", "a", "c">>,
     <<"m", ".", "O", "G", "G">>}
\* no extension, a hidden file named like an extension, an extension that is
\* the beginning of an audio one
OtherNames ==
    {<<"n", "o", "t", "e", "s">>, <<".", "o", "g", "g">>, <<"m", ".", "m", "p">>}

\* a text file has a content; what a parser or the speech model reads in the
\* other files is the environment's answer
Files ==
    {NoFile}
    \cup {[kind |-> k, name |-> <<"m">>, content |-> <<>>] :
            k \in {"missing", "dir", "badname"}}
    \cup {RegularFile(n, c) : n \in TxtNames, c \in Texts \cup {Unreadable}}
    \cup {RegularFile(n, <<>>) : n \in ParsedNames \cup AudioNames \cup OtherNames}

ErrorPrefix == "X Error: "
SuccessPrefix == "OK "
SaveLine == "Data saved to Hugging Face Dataset"

\* a status message: its prefix, its lines, and the three counts of lines 140
Message(prefix, lines, chars, topics, keywords) ==
    [prefix |-> prefix, lines |-> lines, chars |-> chars, topics |-> topics,
     keywords |-> keywords]

\* the five-part tuple of a failure path
ErrorResult(reason) ==
    [raised |-> FALSE, summary |-> "", topics |-> <<>>, keywords |-> <<>>,
     pdf_path |-> NoPath, message |-> Message(ErrorPrefix, <<reason>>, 0, 0, 0)]

\* lines 139-151 with the confirmation line added whatever the token
SuccessResult_AlwaysSaveLine(text, analysis, pdf_path, hf_token) ==
    [raised |-> FALSE,
     summary |-> format_analysis_for_display(analysis).summary,
     topics |-> format_analysis_for_display(analysis).topics,
     keywords |-> format_analysis_for_display(analysis).keywords,
     pdf_path |-> pdf_path,
     message |-> Message(SuccessPrefix,
                         <<"Meeting analyzed successfully!", "File",
                           "Characters analyzed", "Topics identified", "Keywords",
                           SaveLine>>,
                         Len(text), Len(analysis.topics), Len(analysis.keywords))]

\* lines 139-151: the tuple of the success path
SuccessResult(text, analysis, pdf_path, hf_token) ==
    [raised |-> FALSE,
     summary |-> format_analysis_for_display(analysis).summary,
     topics |-> format_analysis_for_display(analysis).topics,
     keywords |-> format_analysis_for_display(analysis).keywords,
     pdf_path |-> pdf_path,
     message |-> Message(SuccessPrefix,
                         <<"Meeting analyzed successfully!", "File",
                           "Characters analyzed", "Topics identified", "Keywords">>
                         \o (IF hf_token # "" THEN <<SaveLine>> ELSE <<>>),
                         Len(text), Len(analysis.topics),
                         Len(analysis.keywords))]

\* lines 153-155: the handler of the try block
ExceptionResult == ErrorResult("str(e)")

\* what a stage returned as text: the failure signal, the empty text, a text of
\* white space only, or a text with something in it
TextClass(text) ==
    IF text = NoText THEN "failure signal"
    ELSE IF text = <<>> THEN "empty"
    ELSE IF Strip(text) = <<>> THEN "blank"
    ELSE "text"

\* a request as it starts: no stage called, the state as it stands
NewRequest(hf_token) ==
    [calls |-> <<>>, hf_token |-> hf_token, name |-> <<>>,
     extracted |-> "not called",
     analysis |-> NoAnalysis, pdf |-> NoPath, pdfIsFile |-> FALSE,
     saved |-> "not called", temp |-> _temp_files, fs |-> fs,
     remote |-> remote, published |-> published,
     cache |-> [model |-> _model, processor |-> _processor, pf |-> procFetches,
                mf |-> modelFetches]]

Called(r, stage) == [r EXCEPT !.calls = Append(r.calls, stage)]

\* the request ends: the state it leaves and what the caller gets
Return(r, ret) ==
    /\ _temp_files' = r.temp
    /\ fs' = r.fs
    /\ returned' = IF ~ret.raised /\ ret.pdf_path # NoPath
                   THEN Append(returned, ret.pdf_path)
                   ELSE returned
    /\ requests' = requests + 1
    /\ last' = [op |-> "process", calls |-> r.calls, ret |-> ret,
                hf_token |-> r.hf_token, name |-> r.name,
                extracted |-> r.extracted,
                analysis |-> r.analysis, pdf |-> r.pdf, pdfIsFile |-> r.pdfIsFile,
                saved |-> r.saved,
                tempBefore |-> _temp_files, attempts |-> <<>>]
    /\ _model' = r.cache.model
    /\ _processor' = r.cache.processor
    /\ procFetches' = r.cache.pf
    /\ modelFetches' = r.cache.mf
    /\ remote' = r.remote
    /\ published' = r.published
    /\ UNCHANGED <<lastLoad, installed, concVars, lastAnalyze, lastExtract, lastSave>>

\* the try block without its handler: the exception reaches the caller
Caught_Reraise(r) == Return(r, [ExceptionResult EXCEPT !.raised = TRUE])

\* a statement of the try block raises: line 153 catches it
Caught(r) == Return(r, ExceptionResult)

\* lines 135-151 tracking whatever generate_pdf returned, a regular file or not
Finish_TrackUnchecked(r, text, analysis, pdf_path) ==
    Return([r EXCEPT !.temp = IF r.pdf # NoPath THEN Append(r.temp, r.pdf)
                              ELSE r.temp],
           SuccessResult(text, analysis, pdf_path, r.hf_token))

\* lines 135-151 with the confirmation line only after a write that returned true
Finish_LineWhenSaved(r, text, analysis, pdf_path) ==
    Return([r EXCEPT !.temp = IF pdf_path # NoPath THEN Append(r.temp, pdf_path)
                              ELSE r.temp],
           SuccessResult(text, analysis, pdf_path,
                         IF r.saved = "true" THEN r.hf_token ELSE ""))

\* lines 135-151: track the report, build the message, return
Finish(r, text, analysis, pdf_path) ==
    Return([r EXCEPT !.temp = IF pdf_path # NoPath THEN Append(r.temp, pdf_path)
                              ELSE r.temp],
           SuccessResult(text, analysis, pdf_path, r.hf_token))

\* lines 119-133 with a failed archive write ending the request
ArchiveStage_Fatal(r, text, analysis, pdf_path) ==
    IF r.hf_token # ""
    THEN \E sv \in {save_meeting_to_dataset(r.remote, r.published + 1, TRUE,
                                            r.hf_token, installed, env) :
                    env \in SaveEnvs} :
            LET r1 == [Called(r, "save_meeting_to_dataset") EXCEPT
                          !.saved = IF sv.ok THEN "true" ELSE "false",
                          !.remote = sv.remote,
                          !.published = IF sv.pushed THEN r.published + 1
                                        ELSE r.published]
            IN  IF sv.ok THEN Finish(r1, text, analysis, pdf_path)
                ELSE Return(r1, ErrorResult("Saving failed"))
    ELSE Finish(r, text, analysis, pdf_path)

\* lines 119-133: the archive write, when a token is given
ArchiveStage(r, text, analysis, pdf_path) ==
    IF r.hf_token # ""
    THEN \E sv \in {save_meeting_to_dataset(r.remote, r.published + 1, TRUE,
                                            r.hf_token, installed, env) :
                    env \in SaveEnvs} :
            Finish([Called(r, "save_meeting_to_dataset") EXCEPT
                       !.saved = IF sv.ok THEN "true" ELSE "false",
                       !.remote = sv.remote,
                       !.published = IF sv.pushed THEN r.published + 1
                                     ELSE r.published],
                   text, analysis, pdf_path)
    ELSE Finish(r, text, analysis, pdf_path)

\* lines 105-117 with a failed rendering ending the request
RenderStage_Abort(r, text, analysis) ==
    \E build \in BuildOutcomes :
        LET g == generate_pdf(analysis, installed, r.fs, build)
            r1 == [Called(r, "generate_pdf") EXCEPT
                      !.pdf = g.path, !.pdfIsFile = (g.path \in g.fs), !.fs = g.fs]
        IN  IF g.path = NoPath THEN Return(r1, ErrorResult("PDF generation failed"))
            ELSE ArchiveStage(r1, text, analysis, g.path)

\* lines 105-117: render the report; a path that is no regular file (the file is
\* gone by the time of the check) is dropped
RenderStage(r, text, analysis) ==
    \E build \in BuildOutcomes, vanished \in BOOLEAN :
        LET g == generate_pdf(analysis, installed, r.fs, build)
            files == IF vanished THEN g.fs \ {g.path} ELSE g.fs
            pdf_path == IF g.path # NoPath /\ g.path \notin files THEN NoPath
                        ELSE g.path
        IN  /\ vanished => g.path # NoPath
            /\ ArchiveStage([Called(r, "generate_pdf") EXCEPT
                                !.pdf = g.path, !.pdfIsFile = (g.path \in files),
                                !.fs = files],
                            text, analysis, pdf_path)

\* lines 96-103: analyze the text
AnalyzeStage(r, text, api_key) ==
    \E analysis \in {analyze_meeting(text, api_key, installed, resp).result :
                      resp \in Responses} :
        LET r1 == [Called(r, "analyze_meeting") EXCEPT !.analysis = analysis]
        IN  IF ~analysis.ok
            THEN Return(r1, ErrorResult("Analysis failed"))
            ELSE RenderStage(r1, text, analysis)

\* lines 81-94 without the check of line 93
ValidateText_NoBlankCheck(r, text, api_key, failure) ==
    LET r1 == [r EXCEPT !.extracted = TextClass(text)]
    IN  IF Falsy(text) THEN Return(r1, ErrorResult(failure))
        ELSE AnalyzeStage(r1, text, api_key)

\* lines 81-94: the text the stage returned is checked, then analyzed
ValidateText(r, text, api_key, failure) ==
    LET r1 == [r EXCEPT !.extracted = TextClass(text)]
    IN  IF Falsy(text) THEN Return(r1, ErrorResult(failure))
        ELSE IF Strip(text) = <<>>
        THEN Return(r1, ErrorResult("No text extracted from file"))
        ELSE AnalyzeStage(r1, text, api_key)

\* lines 77-90: transcribe an audio file, extract the text of any other
ExtractStage(r, file, api_key) ==
    IF is_audio_file(file.name)
    THEN /\ CanLoad
         /\ \E tr \in {transcribe_audio(TRUE, installed, _model, _processor,
                                         procFetches, modelFetches, env, infer) :
                        env \in LoadEnvs(_model, _processor, installed),
                        infer \in InferOutcomes} :
              ValidateText([Called(r, "transcribe_audio") EXCEPT
                               !.name = file.name,
                               !.cache = [model |-> tr.model,
                                          processor |-> tr.processor,
                                          pf |-> tr.pf, mf |-> tr.mf]],
                           tr.text, api_key, "Transcription failed")
    ELSE \E text \in {extract_text(TRUE, file.name, file.content, installed,
                                   parsed).text : parsed \in ParserOutcomes} :
            ValidateText([Called(r, "extract_text") EXCEPT !.name = file.name],
                         text, api_key,
                         "Text extraction failed")

\* lines 47-68: the inputs are checked
ValidateInputs(r, file, api_key) ==
    IF file.kind = "none" THEN Return(r, ErrorResult("No file uploaded"))
    ELSE IF api_key = "" THEN Return(r, ErrorResult("OpenAI API key required"))
    ELSE IF file.kind = "badname" THEN Caught(r)
    ELSE IF file.kind = "missing"
    THEN Return(r, ErrorResult("File not found or invalid"))
    ELSE IF file.kind = "dir"
    THEN Return(r, ErrorResult("Path is a directory, not a file"))
    ELSE ExtractStage(r, file, api_key)

\* the presentation layer invokes process_meeting(file, api_key, hf_token)
ProcessMeeting ==
    /\ requests < MaxRequests
    /\ \E file \in Files, api_key \in ApiKeys, hf_token \in HfTokens :
          ValidateInputs(NewRequest(hf_token), file, api_key)

(***************************************************************************)
(* app.py: cleanup_temp_files                                              *)
(***************************************************************************)
\* the loop of lines 161-166 over the list, os.remove failing on the paths of
\* failing: the files left, and the paths os.remove was called on
RECURSIVE CleanupLoop(_, _, _, _)
CleanupLoop(paths, files, failing, attempts) ==
    IF paths = <<>> THEN [fs |-> files, attempts |-> attempts]
    ELSE LET file_path == Head(paths)
         IN  IF file_path \in files
             THEN CleanupLoop(Tail(paths),
                              IF file_path \in failing THEN files
                              ELSE files \ {file_path},
                              failing, Append(attempts, file_path))
             ELSE CleanupLoop(Tail(paths), files, failing, attempts)

\* cleanup_temp_files without the try of line 163: the first failing os.remove
\* ends the call, the list as it was
RECURSIVE CleanupLoop_NoTry(_, _, _, _)
CleanupLoop_NoTry(paths, files, failing, attempts) ==
    IF paths = <<>> THEN [temp |-> <<>>, fs |-> files, attempts |-> attempts]
    ELSE LET file_path == Head(paths)
         IN  IF file_path \in files /\ file_path \in failing
             THEN [temp |-> paths, fs |-> files,
                   attempts |-> Append(attempts, file_path)]
             ELSE IF file_path \in files
             THEN CleanupLoop_NoTry(Tail(paths), files \ {file_path}, failing,
                                    Append(attempts, file_path))
             ELSE CleanupLoop_NoTry(Tail(paths), files, failing, attempts)

cleanup_temp_files_NoTry(paths, files, failing) ==
    CleanupLoop_NoTry(paths, files, failing, <<>>)

\* cleanup_temp_files: the loop, then the list cleared
cleanup_temp_files(paths, files, failing) ==
    [temp |-> <<>>] @@ CleanupLoop(paths, files, failing, <<>>)

NoCall ==
    [op |-> "none", calls |-> <<>>, ret |-> ErrorResult(""), hf_token |-> "",
     name |-> <<>>, extracted |-> "not called", analysis |-> NoAnalysis, pdf |-> NoPath,
     pdfIsFile |-> FALSE, saved |-> "not called", tempBefore |-> <<>>, attempts |-> <<>>]

\* the application shuts down, or a caller invokes cleanup_temp_files()
CleanupTempFiles ==
    /\ \E failing \in SUBSET PdfPaths :
          LET c == cleanup_temp_files(_temp_files, fs, failing)
          IN  /\ _temp_files' = c.temp
              /\ fs' = c.fs
              /\ last' = [NoCall EXCEPT !.op = "cleanup", !.tempBefore = _temp_files,
                                        !.attempts = c.attempts]
    /\ returned' = <<>>
    /\ UNCHANGED <<requests, whisperVars, lastLoad, installed, concVars, lastAnalyze,
                   lastExtract, archiveVars, lastSave>>

(***************************************************************************)
(* The specifications.                                                     *)
(***************************************************************************)
Init ==
    /\ _temp_files = <<>>
    /\ fs = {}
    /\ returned = <<>>
    /\ requests = 0
    /\ last = NoCall
    /\ _model = NoModel
    /\ _processor = NoProcessor
    /\ procFetches = 0
    /\ modelFetches = 0
    /\ lastLoad = NoLoad
    /\ installed \in LibConfigs
    /\ lastAnalyze = NoAnalyze
    /\ lastExtract = NoExtract
    /\ remote = <<>>
    /\ published = 0
    /\ lastSave = NoSave
    /\ threads = [t \in Threads |-> IdleThread]
    /\ heap = <<>>
    /\ procs = <<>>
    /\ loadAttempts = 0

\* the request pipeline: requests one at a time, and cleanups
Next == ProcessMeeting \/ CleanupTempFiles

Spec == Init /\ [][Next]_vars

\* the collaborators called directly, one call after the other
NextDirect == LoadCall \/ TranscribeCall \/ AnalyzeCall

SpecDirect == Init /\ [][NextDirect]_vars

\* the extractor called directly
NextExtract == ExtractCall

SpecExtract == Init /\ [][NextExtract]_vars

\* the archive writer called directly, one save after the other
NextArchive == SaveCall

SpecArchive == Init /\ [][NextArchive]_vars

\* load_whisper_model called by concurrent requests, statement by statement
NextConcurrent ==
    \E t \in Threads :
        \/ ThreadCall(t)
        \/ ThreadCheck(t)
        \/ ThreadFetchProcessor(t)
        \/ ThreadFetchModel(t)
        \/ ThreadEval(t)
        \/ ThreadTo(t)
        \/ ThreadAssign(t)
        \/ ThreadReturn(t)

SpecConcurrent == Init /\ [][NextConcurrent]_vars

(***************************************************************************)
(* The properties.                                                         *)
(***************************************************************************)
Processed == last.op = "process"
Reason == last.ret.message.lines[1]
IsCalled(stage) == \E i \in 1..Len(last.calls) : last.calls[i] = stage

\* the place of a stage in the pipeline
Rank(stage) ==
    CASE stage \in {"transcribe_audio", "extract_text"} -> 1
      [] stage = "analyze_meeting" -> 2
      [] stage = "generate_pdf" -> 3
      [] stage = "save_meeting_to_dataset" -> 4

InputErrors ==
    {"No file uploaded", "OpenAI API key required", "File not found or invalid",
     "Path is a directory, not a file"}

\* C1: within a request the stages are called in the fixed order, each at most
\* once; a request whose inputs are rejected calls none; after a failed
\* extraction or transcription, or an empty text, the analyzer, the renderer and
\* the archive writer are not called; after a failed analysis the renderer and
\* the archive writer are not called.
C1_StagesInOrderFirstFailureEnds ==
    Processed =>
        /\ \A i \in 1..Len(last.calls) : Rank(last.calls[i]) = i
        /\ Reason \in InputErrors => last.calls = <<>>
        /\ last.extracted \in {"failure signal", "empty", "blank"}
              => Len(last.calls) = 1
        /\ Len(last.calls) >= 2 => last.extracted = "text"
        /\ (IsCalled("analyze_meeting") /\ ~last.analysis.ok) => Len(last.calls) = 2
        /\ Len(last.calls) >= 3 => last.analysis.ok

\* C1 witness: a request ran all four stages, the transcriber first
C1_Witness ==
    /\ Processed
    /\ last.calls = <<"transcribe_audio", "analyze_meeting", "generate_pdf",
                      "save_meeting_to_dataset">>

\* the report rendering of the last request failed: generate_pdf returned the
\* failure signal, or a path that is no regular file
RenderFailed ==
    /\ Processed
    /\ IsCalled("generate_pdf")
    /\ (last.pdf = NoPath \/ ~last.pdfIsFile)

\* C2: when the rendering fails after a successful analysis the request still
\* returns the success result, with the formatted analysis, the success prefix
\* and no report path; the archive writer is called iff a token was given; the
\* tracking list is as it was.
C2_RenderFailureIsNotFatal ==
    RenderFailed =>
        /\ ~last.ret.raised
        /\ last.ret.message.prefix = SuccessPrefix
        /\ last.ret.summary = format_analysis_for_display(last.analysis).summary
        /\ last.ret.topics = format_analysis_for_display(last.analysis).topics
        /\ last.ret.keywords = format_analysis_for_display(last.analysis).keywords
        /\ last.ret.pdf_path = NoPath
        /\ IsCalled("save_meeting_to_dataset") <=> last.hf_token # ""
        /\ _temp_files = last.tempBefore

\* C2 witness: generate_pdf returned a path that was no regular file, a token
\* was given
C2_Witness == RenderFailed /\ last.pdf # NoPath /\ last.hf_token # ""

\* C3: a request that reached the archive write returns the success result, the
\* formatted analysis and the report path, whatever save_meeting_to_dataset
\* returned, and the report path is tracked.
C3_ArchiveFailureIsNotFatal ==
    (Processed /\ IsCalled("save_meeting_to_dataset")) =>
        /\ last.saved \in {"true", "false"}
        /\ ~last.ret.raised
        /\ last.ret.message.prefix = SuccessPrefix
        /\ last.ret.summary = format_analysis_for_display(last.analysis).summary
        /\ last.ret.topics = format_analysis_for_display(last.analysis).topics
        /\ last.ret.keywords = format_analysis_for_display(last.analysis).keywords
        /\ last.ret.pdf_path = (IF last.pdfIsFile THEN last.pdf ELSE NoPath)
        /\ last.ret.pdf_path # NoPath
              => _temp_files = Append(last.tempBefore, last.ret.pdf_path)

\* C3 witness: the archive write returned false and the report was returned
C3_Witness ==
    /\ Processed
    /\ last.saved = "false"
    /\ last.ret.pdf_path # NoPath

HasSaveLine ==
    \E i \in 1..Len(last.ret.message.lines) : last.ret.message.lines[i] = SaveLine

\* C4: a request without an archival token never calls the archive writer, and
\* its status message has no save-confirmation line.
C4_NoTokenNoArchive ==
    (Processed /\ last.hf_token = "") =>
        /\ ~IsCalled("save_meeting_to_dataset")
        /\ last.saved = "not called"
        /\ ~HasSaveLine

\* C4 witness: a request without a token succeeded
C4_Witness ==
    /\ Processed
    /\ last.hf_token = ""
    /\ last.ret.message.prefix = SuccessPrefix

\* C5: the error message names the stage that failed: a transcription or
\* extraction failure is reported exactly when that stage returned the failure
\* signal, "no text extracted" exactly when it returned an empty or blank text,
\* an analysis failure exactly when the analyzer returned the failure signal.
C5_MessageNamesFailedStage ==
    Processed =>
        /\ Reason = "Transcription failed"
              <=> (IsCalled("transcribe_audio") /\ last.extracted = "failure signal")
        /\ Reason = "Text extraction failed"
              <=> (IsCalled("extract_text") /\ last.extracted = "failure signal")
        /\ Reason = "No text extracted from file"
              <=> last.extracted \in {"empty", "blank"}
        /\ Reason = "Analysis failed"
              <=> (IsCalled("analyze_meeting") /\ ~last.analysis.ok)

\* C6: process_meeting never raises; a result with the failure prefix has three
\* empty display strings and no report path; the success prefix is returned
\* only when the extraction or transcription and the analysis both succeeded,
\* and every other request gets the failure prefix.
C6_AlwaysAFiveTuple ==
    Processed =>
        /\ ~last.ret.raised
        /\ last.ret.message.prefix \in {ErrorPrefix, SuccessPrefix}
        /\ last.ret.message.prefix = ErrorPrefix
              => /\ last.ret.summary = ""
                 /\ last.ret.topics = <<>>
                 /\ last.ret.keywords = <<>>
                 /\ last.ret.pdf_path = NoPath
        /\ last.ret.message.prefix = SuccessPrefix
              <=> (last.extracted = "text" /\ last.analysis.ok)

\* C6 witness: a statement of the try block raised
C6_Witness == Processed /\ Reason = "str(e)"

\* C7: the tracking list holds, in request order, exactly the report paths the
\* requests since the last cleanup returned; a request appends the path it
\* returns and a request that returns none leaves the list as it was.
C7_TrackedAreTheReturned ==
    /\ _temp_files = returned
    /\ Processed =>
          _temp_files = (IF last.ret.pdf_path # NoPath
                         THEN Append(last.tempBefore, last.ret.pdf_path)
                         ELSE last.tempBefore)

\* C7 witness: two requests returned two different reports, the second after the
\* first
C7_Witness ==
    /\ Processed
    /\ Len(_temp_files) = 2
    /\ _temp_files[1] # _temp_files[2]

\* C8: a cleanup calls os.remove on every tracked file that exists when its turn
\* comes, whatever removals failed before it, removes nothing else, and leaves
\* the list empty; a cleanup right after a cleanup removes nothing.
C8_CleanupClearsTheList ==
    [][ last'.op = "cleanup" =>
          /\ _temp_files' = <<>>
          /\ \A i \in 1..Len(_temp_files) :
                _temp_files[i] \in fs
                  => \E j \in 1..Len(last'.attempts) :
                        last'.attempts[j] = _temp_files[i]
          /\ \A j \in 1..Len(last'.attempts) : last'.attempts[j] \in fs
          /\ fs' \subseteq fs
          /\ last.op = "cleanup" => (fs' = fs /\ last'.attempts = <<>>)
      ]_vars

\* C8 witness: of two tracked files the first could not be removed, the second
\* was
C8_Witness ==
    /\ last.op = "cleanup"
    /\ Len(last.tempBefore) = 2
    /\ last.attempts = last.tempBefore
    /\ last.tempBefore[1] \in fs
    /\ last.tempBefore[2] \notin fs
    /\ _temp_files = <<>>

\* the model and processor the last load_whisper_model call returned are the
\* cached ones, in eval mode and placed on a device
ReturnedConfigured ==
    /\ ~lastLoad.raised
    /\ lastLoad.model = _model
    /\ lastLoad.processor = _processor
    /\ lastLoad.model.eval
    /\ lastLoad.model.placed # "none"

\* C9: over sequential calls, failed load attempts included, the processor and
\* the model are each fetched at most once, and a call made when the cache is
\* populated returns the cached, fully configured instances.
C9_LoadedAtMostOnce ==
    /\ procFetches <= 1
    /\ modelFetches <= 1
    /\ (lastLoad.op = "load" /\ lastLoad.cachedBefore) => ReturnedConfigured

PreflightFails ==
    \/ Falsy(lastAnalyze.text)
    \/ Strip(lastAnalyze.text) = <<>>
    \/ lastAnalyze.api_key = ""
    \/ "openai" \notin installed

\* C10: analyze_meeting returns the failure signal without constructing the
\* client or sending a request when the text is empty or blank, the key is
\* empty or the client library is missing; otherwise it constructs the client
\* and sends exactly one request.
C10_PreflightBeforeAnyRequest ==
    lastAnalyze.called =>
        /\ PreflightFails
              => /\ lastAnalyze.result = NoAnalysis
                 /\ ~lastAnalyze.client
                 /\ lastAnalyze.requests = 0
        /\ ~PreflightFails => (lastAnalyze.client /\ lastAnalyze.requests = 1)

\* C10 witness: a call passed the three checks and sent its request
C10_Witness ==
    /\ lastAnalyze.called
    /\ ~PreflightFails
    /\ lastAnalyze.requests = 1

\* the documents that are a JSON object with summary a string and topics and
\* keywords lists
WellFormed ==
    {d \in Docs :
        /\ JsonValue(d).kind = "object"
        /\ JsonValue(d).f.summary = Has("str")
        /\ JsonValue(d).f.topics = Has("list")
        /\ JsonValue(d).f.keywords = Has("list")}

\* the result that carries the three fields of document d
FullResult(d) ==
    [ok |-> TRUE, summary |-> JsonValue(d).summary, topics |-> JsonValue(d).topics,
     keywords |-> JsonValue(d).keywords]

\* the document a content carries, alone or inside a fence
Carries(content, d) == content \in {Bare(d), TaggedFenced(d), PlainFenced(d)}

\* C11: analyze_meeting is all-or-nothing: the result of a call is the failure
\* signal or the three fields of a well-formed document the response carried,
\* never a part of them; a service call that raised, invalid JSON, a JSON value
\* that is no object, a missing key and a wrongly typed field all give the
\* failure signal, and the call does not raise.
C11_AllOrNothing ==
    lastAnalyze.called =>
        /\ lastAnalyze.result.ok
              => \E d \in WellFormed :
                    /\ Carries(lastAnalyze.resp, d)
                    /\ lastAnalyze.result = FullResult(d)
        /\ ~lastAnalyze.result.ok => lastAnalyze.result = NoAnalysis
        /\ lastAnalyze.resp \in {RespRaises, NoResponse}
              => lastAnalyze.result = NoAnalysis
        /\ \A d \in Docs \ WellFormed :
              Carries(lastAnalyze.resp, d) => lastAnalyze.result = NoAnalysis

\* C11 witness: the response carried an object whose topics field is a string
C11_Witness ==
    /\ lastAnalyze.called
    /\ lastAnalyze.requests = 1
    /\ lastAnalyze.resp = Bare("Jtype")
    /\ lastAnalyze.result = NoAnalysis

\* C16: fence stripping is transparent: for a well-formed document the result
\* is the same whether the content is the document alone, the document in a
\* json-tagged fence, or the document in a plain fence.
C16_FenceStrippingTransparent ==
    (lastAnalyze.called /\ lastAnalyze.requests = 1) =>
        \A d \in WellFormed :
            Carries(lastAnalyze.resp, d) => lastAnalyze.result = FullResult(d)

\* the letters of the two characters are the same, whatever their case
SameLetter(a, b) == LowerChar(a) = LowerChar(b)

\* name is a stem, a dot and ext, in any case; the stem is not empty and not
\* made of dots only
HasExtension(name, ext) ==
    LET n == Len(name) - Len(ext)
    IN  /\ n >= 2
        /\ name[n] = "."
        /\ \A i \in 1..Len(ext) : SameLetter(name[n + i], ext[i])
        /\ \E j \in 1..(n - 1) : name[j] # "."

AudioFormats ==
    {<<"m", "p", "3">>, <<"w", "a", "v">>, <<"m", "4", "a">>, <<"f", "l", "a", "c">>,
     <<"o", "g", "g">>}

\* C12: a request that passes input validation calls the transcriber and not
\* the extractor when the extension of the file name is, in any case, one of
\* mp3, wav, m4a, flac, ogg, and the extractor and not the transcriber for every
\* other name, a name without extension included: one of the two, first.
C12_DispatchOnExtension ==
    (Processed /\ last.calls # <<>>) =>
        /\ last.calls[1] \in {"transcribe_audio", "extract_text"}
        /\ last.calls[1] = "transcribe_audio"
              <=> \E ext \in AudioFormats : HasExtension(last.name, ext)
        /\ ~(IsCalled("transcribe_audio") /\ IsCalled("extract_text"))

\* C12 witness: a file named with an upper-case audio extension was transcribed
C12_Witness ==
    /\ Processed
    /\ last.name = <<"m", ".", "O", "G", "G">>
    /\ last.calls[1] = "transcribe_audio"

\* C18: the status message of a successful request has the save-confirmation
\* line iff a token was given, whatever save_meeting_to_dataset returned: also
\* when it returned false.
C18_SaveLineFollowsTheToken ==
    (Processed /\ last.ret.message.prefix = SuccessPrefix) =>
        /\ HasSaveLine <=> last.hf_token # ""
        /\ last.saved = "false" => HasSaveLine

\* C18 witness: the archive write returned false and the line is in the message
C18_Witness ==
    /\ Processed
    /\ last.ret.message.prefix = SuccessPrefix
    /\ last.saved = "false"
    /\ HasSaveLine

\* C13: extract_text never raises; for a name whose extension is, in any case,
\* none of .txt, .pdf, .docx it calls no decoder and returns the failure signal;
\* when a decoder raises (a missing parsing library, an I/O error, a parser
\* error) it returns the failure signal.
C13_ExtractNeverRaises ==
    lastExtract.called =>
        /\ ~lastExtract.raised
        /\ (~\E ext \in {<<"t", "x", "t">>, <<"p", "d", "f">>, <<"d", "o", "c", "x">>} :
                HasExtension(lastExtract.name, ext))
              => (lastExtract.decoder = "none" /\ lastExtract.text = NoText)
        /\ lastExtract.decoderRaised => lastExtract.text = NoText
        /\ (lastExtract.decoder = "txt" /\ lastExtract.input = Unreadable)
              => lastExtract.decoderRaised
        /\ (lastExtract.decoder = "pdf"
            /\ ("PyPDF2" \notin installed \/ lastExtract.input = ParserRaises))
              => lastExtract.decoderRaised
        /\ (lastExtract.decoder = "docx"
            /\ ("docx" \notin installed \/ lastExtract.input = ParserRaises))
              => lastExtract.decoderRaised

\* C13 witness: the PDF decoder was called without its library
C13_Witness ==
    /\ lastExtract.called
    /\ lastExtract.decoder = "pdf"
    /\ "PyPDF2" \notin installed
    /\ lastExtract.decoderRaised
    /\ lastExtract.text = NoText

\* C14: the published collection is append-only: after any sequence of saves,
\* saves whose fetch of the existing collection failed included, every record
\* published so far is in the collection, once, in the order of publication.
C14_ArchiveIsAppendOnly == remote = [i \in 1..published |-> i]

\* what the last save needed to get to the publish step
SaveGotThrough ==
    /\ lastSave.hasData
    /\ "datasets" \in installed
    /\ (lastSave.env.fetch \/ lastSave.env.create)
    /\ lastSave.env.build

GotUnconfigured ==
    /\ lastLoad.op = "load"
    /\ ~lastLoad.raised
    /\ (~lastLoad.model.eval \/ lastLoad.model.placed = "none")

\* the last caller got a model and a processor made by different load attempts
GotMixed ==
    /\ lastLoad.op = "load"
    /\ ~lastLoad.raised
    /\ heap[lastLoad.model.id].by # procs[lastLoad.processor]

\* C17: the first load is not guarded: a caller that makes the emptiness check
\* while the model or the processor is missing starts a load of its own,
\* whatever the other callers are doing, also when one of them is loading.
C17_FirstLoadIsNotGuarded ==
    [][ \A t \in Threads :
          (/\ threads[t].pc = "check"
           /\ threads'[t].pc # "check"
           /\ (_model = NoModel \/ _processor = NoProcessor))
            => (threads'[t].pc = "processor" /\ loadAttempts' = loadAttempts + 1)
      ]_vars

\* C17 witness: the processor and the model were each loaded twice, and a
\* caller got a model that was assigned but not configured, with a processor
\* of another load attempt
C17_Witness ==
    /\ procFetches >= 2
    /\ modelFetches >= 2
    /\ GotUnconfigured
    /\ GotMixed

====
